---------------------------- MODULE Spec2Model ----------------------------
(* Route metrics of metricas.py: the directed weighted graph G, a route    *)
(* (a list of (origen, destino) pairs) and the four metric functions       *)
(* calcular_tiempo_total, estimar_distancia_total,                         *)
(* estimar_consumo_combustible and contar_entregas, followed by the        *)
(* module-level computation and report.                                    *)
(*                                                                         *)
(* Numbers.  Edge weights and the accumulated time are Python ints, which  *)
(* are exact.  Speeds, efficiencies, distances and consumptions are Python *)
(* floats: binary floating point, every operation rounded to the nearest   *)
(* representable value, ties to even.  A float is modelled as a record     *)
(* [m, e] of value m * 2^e whose mantissa m holds Precision bits; the      *)
(* operations below round exactly as IEEE 754 does, at that precision.     *)
(* The exponent is unbounded: no value of the model is near overflow or    *)
(* underflow.                                                              *)
EXTENDS Integers, Sequences, FiniteSets, TLC

\* ------------------------------------------------------------------ bounds
\* Longest route drawn as an input (ruta_ejemplo is always an input too).
MaxLen == 3
\* Longest route drawn for the caller that calls the functions in any order.
MaxLenLlamadas == 1
\* Lines of output after which that caller makes no call that prints.
MaxSalida == 3
\* Bits of a float's mantissa (53 in CPython; the rounding rule is the same).
Precision == 9

\* ------------------------------------------------------------ sample data
CEDI == "Centro Distribucion CEDI - Sur"
P1 == "Punto Entrega 1 - Tequendama"
P2 == "Punto Entrega 2 - Granada"
P3 == "Punto Entrega 3 - San Antonio"
P4 == "Punto Entrega 4 - Ciudad Jardin"
P5 == "Punto Entrega 5 - Menga"

\* Keys of nodos_simulados_geo (the coordinates are read by no metric).
nodos_simulados_geo == {CEDI, P1, P2, P3, P4, P5}

\* (origen, destino, weight) in the order of the source list.
aristas_simuladas ==
    << <<CEDI, P1, 20>>, <<CEDI, P4, 10>>, <<P1, CEDI, 25>>, <<P1, P2, 15>>,
       <<P1, P3, 5>>,    <<P2, P1, 18>>,   <<P2, P5, 30>>,   <<P3, P1, 7>>,
       <<P3, P4, 20>>,   <<P4, CEDI, 12>>, <<P4, P3, 22>>,   <<P5, CEDI, 40>> >>

ruta_ejemplo == << <<CEDI, P4>>, <<P4, P3>>, <<P3, P1>>, <<P1, CEDI>> >>

\* Python's None, and the value of a name the script has not assigned yet.
\* Python values carry their type: None, an int n, a float m * 2^e.
None == [tipo |-> "None"]
SinAsignar == [tipo |-> "sin asignar"]
PyInt(n) == [tipo |-> "int", n |-> n]
IsNone(x) == x.tipo = "None"

\* ---------------------------------------------------------------- DiGraph
\* nx.DiGraph(): no nodes, no edges.  peso maps each edge <<u, v>> to its
\* 'weight' attribute.
DiGraph == [nodos |-> {}, peso |-> <<>>]

add_node(g, n) == [g EXCEPT !.nodos = @ \cup {n}]

\* Faulty variant: the edge is added in both directions, as nx.Graph would.
add_edge_no_dirigido(g, u, v, w) ==
    [nodos |-> g.nodos \cup {u, v},
     peso  |-> (<<u, v>> :> w) @@ (<<v, u>> :> w) @@ g.peso]

\* add_edge(u, v, weight=w): both endpoints become nodes, and the edge
\* u -> v alone gets the weight (a later add of the same edge overwrites).
add_edge(g, u, v, w) ==
    [nodos |-> g.nodos \cup {u, v},
     peso  |-> (<<u, v>> :> w) @@ g.peso]

RECURSIVE add_edges_from(_, _)
add_edges_from(g, ebunch) ==
    IF ebunch = <<>> THEN g
    ELSE add_edges_from(add_edge(g, Head(ebunch)[1], Head(ebunch)[2], Head(ebunch)[3]),
                        Tail(ebunch))

RECURSIVE add_nodes(_, _)
add_nodes(g, ns) ==
    IF ns = {} THEN g
    ELSE LET n == CHOOSE x \in ns : TRUE
         IN  add_nodes(add_node(g, n), ns \ {n})

has_edge(g, u, v) == <<u, v>> \in DOMAIN g.peso

weight(g, u, v) == g.peso[<<u, v>>]

\* The graph a list of edges builds on the sample nodes (lines 35-38).
BuildGraph(ebunch) == add_edges_from(add_nodes(DiGraph, nodos_simulados_geo), ebunch)

G == BuildGraph(aristas_simuladas)

\* ------------------------------------------------------------------ floats
\* 2^n for n >= 0 (and 1 below).
Pow2(n) == IF n <= 0 THEN 1 ELSE 2 ^ n

Abs(x) == IF x < 0 THEN -x ELSE x

Sign(x) == IF x < 0 THEN -1 ELSE IF x > 0 THEN 1 ELSE 0

FZero == [tipo |-> "float", m |-> 0, e |-> 0]

\* Nearest float to (n / d) * 2^ex for naturals n, d > 0, ties to even.
\* The ratio is first scaled into [2^(Precision+1), 2^(Precision+2)), so
\* that its integer part carries two guard bits, and the remainder of the
\* division is kept as a sticky bit.
RECURSIVE RoundRatio(_, _, _)
RoundRatio(n, d, ex) ==
    IF n = 0 THEN FZero
    ELSE IF n < d * Pow2(Precision + 1) THEN RoundRatio(2 * n, d, ex - 1)
    ELSE IF n >= d * Pow2(Precision + 2) THEN RoundRatio(n, 2 * d, ex + 1)
    ELSE LET q      == n \div d
             sticky == IF n % d = 0 THEN 0 ELSE 1
             keep   == q \div 4
             rest   == 2 * (q % 4) + sticky        \* in 0..7, half is 4
             up     == rest > 4 \/ (rest = 4 /\ keep % 2 = 1)
             mant   == IF up THEN keep + 1 ELSE keep
         IN  IF mant = Pow2(Precision)
             THEN [tipo |-> "float", m |-> Pow2(Precision - 1), e |-> ex + 3]
             ELSE [tipo |-> "float", m |-> mant, e |-> ex + 2]

FNeg(a) == [a EXCEPT !.m = -@]

WithSign(s, a) == IF s < 0 THEN FNeg(a) ELSE a

\* float(n) of an int.
FromInt(n) == WithSign(Sign(n), RoundRatio(Abs(n), 1, 0))

\* The float a decimal literal n/d denotes (0.5 is Literal(1, 2)).
Literal(n, d) == WithSign(Sign(n), RoundRatio(Abs(n), d, 0))

\* a * b and a / b (b nonzero) on floats.
FMul(a, b) ==
    WithSign(Sign(a.m) * Sign(b.m), RoundRatio(Abs(a.m) * Abs(b.m), 1, a.e + b.e))

FDiv(a, b) ==
    WithSign(Sign(a.m) * Sign(b.m), RoundRatio(Abs(a.m), Abs(b.m), a.e - b.e))

\* a > 0 on floats.
FPositive(a) == a.m > 0

\* f"{a:.2f}": the value rounded to hundredths (ties to even on the exact
\* binary value), as a number of hundredths.
Format2f(a) ==
    LET n == Abs(a.m) * 100 * Pow2(a.e)
        d == Pow2(-a.e)
        q == n \div d
        r == n % d
        c == IF 2 * r > d \/ (2 * r = d /\ q % 2 = 1) THEN q + 1 ELSE q
    IN  Sign(a.m) * c

\* ----------------------------------------------------------------- metrics
\* A call's result: the value it returns and the lines it prints.
Advertencia(origen, destino) ==
    [tipo |-> "advertencia", origen |-> origen, destino |-> destino]

\* Faulty variant: a pair that is not an edge is warned about and skipped.
RECURSIVE TiempoLoopOmite(_, _, _, _)
TiempoLoopOmite(g, r, i, tiempo_total) ==
    IF i > Len(r) THEN [valor |-> PyInt(tiempo_total), avisos |-> <<>>]
    ELSE LET origen  == r[i][1]
             destino == r[i][2]
         IN  IF has_edge(g, origen, destino)
             THEN TiempoLoopOmite(g, r, i + 1, tiempo_total + weight(g, origen, destino))
             ELSE LET resto == TiempoLoopOmite(g, r, i + 1, tiempo_total)
                  IN  [resto EXCEPT !.avisos = <<Advertencia(origen, destino)>> \o @]

\* The for loop of calcular_tiempo_total from pair i on, tiempo_total so far.
RECURSIVE TiempoLoop(_, _, _, _)
TiempoLoop(g, r, i, tiempo_total) ==
    IF i > Len(r) THEN [valor |-> PyInt(tiempo_total), avisos |-> <<>>]
    ELSE LET origen  == r[i][1]
             destino == r[i][2]
         IN  IF has_edge(g, origen, destino)
             THEN TiempoLoop(g, r, i + 1, tiempo_total + weight(g, origen, destino))
             ELSE [valor |-> None, avisos |-> <<Advertencia(origen, destino)>>]

\* Faulty variant: the weight is assigned (=) instead of added (+=).
calcular_tiempo_total_asigna(g, r) ==
    LET res == TiempoLoop(g, r, 1, 0)
    IN  IF IsNone(res.valor) \/ r = <<>> THEN res
        ELSE [res EXCEPT !.valor = PyInt(weight(g, r[Len(r)][1], r[Len(r)][2]))]

calcular_tiempo_total(g, r) == TiempoLoop(g, r, 1, 0)

\* Faulty variant: a failed total time counts as zero minutes.
estimar_distancia_total_cero(g, r, velocidad_promedio_km_min) ==
    LET t == calcular_tiempo_total(g, r)
    IN  [valor  |-> IF ~IsNone(t.valor)
                    THEN FMul(FromInt(t.valor.n), velocidad_promedio_km_min)
                    ELSE FMul(FromInt(0), velocidad_promedio_km_min),
         avisos |-> t.avisos]

\* Faulty variant: the time is divided by the speed.
estimar_distancia_total_divide(g, r, velocidad_promedio_km_min) ==
    LET t == calcular_tiempo_total(g, r)
    IN  [valor  |-> IF ~IsNone(t.valor)
                    THEN FDiv(FromInt(t.valor.n), velocidad_promedio_km_min)
                    ELSE None,
         avisos |-> t.avisos]

estimar_distancia_total(g, r, velocidad_promedio_km_min) ==
    LET t == calcular_tiempo_total(g, r)
    IN  [valor  |-> IF ~IsNone(t.valor)
                    THEN FMul(FromInt(t.valor.n), velocidad_promedio_km_min)
                    ELSE None,
         avisos |-> t.avisos]

\* Faulty variant: the efficiency is only required to be nonzero.
estimar_consumo_combustible_no_cero(distancia_km, eficiencia_combustible_km_litro) ==
    IF ~IsNone(distancia_km) /\ eficiencia_combustible_km_litro.m # 0
    THEN FDiv(distancia_km, eficiencia_combustible_km_litro)
    ELSE None

estimar_consumo_combustible(distancia_km, eficiencia_combustible_km_litro) ==
    IF ~IsNone(distancia_km) /\ FPositive(eficiencia_combustible_km_litro)
    THEN FDiv(distancia_km, eficiencia_combustible_km_litro)
    ELSE None

\* The for loop of contar_entregas from pair i on.
RECURSIVE EntregasLoop(_, _, _, _, _)
EntregasLoop(r, o, i, puntos_visitados_entrega, entregas) ==
    IF i > Len(r) THEN entregas
    ELSE LET destino == r[i][2]
         IN  IF destino # o /\ destino \notin puntos_visitados_entrega
             THEN EntregasLoop(r, o, i + 1, puntos_visitados_entrega \cup {destino},
                               entregas + 1)
             ELSE EntregasLoop(r, o, i + 1, puntos_visitados_entrega, entregas)

\* Faulty variant: every visit of a destination other than the origin counts.
contar_entregas_con_repetidas(r, o) ==
    Cardinality({i \in 1..Len(r) : r[i][2] # o})

\* Faulty variant: the origin node counts as a delivery point.
contar_entregas_con_origen(r, o) ==
    Cardinality({r[i][2] : i \in 1..Len(r)})

contar_entregas(r, o) == EntregasLoop(r, o, 1, {}, 0)

\* ------------------------------------------------------------------ inputs
\* A second graph on the same nodes: CEDI -> P1 is gone, P2 -> P4 exists,
\* and P1 -> P3 is added twice (the later weight stands).
AristasAlternas ==
    SubSeq(aristas_simuladas, 2, Len(aristas_simuladas))
        \o << <<P2, P4, 9>>, <<P1, P3, 8>> >>

GrafosEntrada == {G, BuildGraph(AristasAlternas)}

\* Pairs routes are drawn from: edges in both directions, a pair with no
\* edge either way in G (P2, P4), and one whose only edge is the reverse
\* (P5, P2).
ParesEntrada ==
    {<<CEDI, P1>>, <<P1, CEDI>>, <<P1, P3>>, <<P3, P1>>, <<P2, P4>>, <<P5, P2>>}

RutasEntrada ==
    {ruta_ejemplo} \cup UNION {[1..n -> ParesEntrada] : n \in 0..MaxLen}

OrigenesEntrada == {CEDI, P1}

\* Defaults of the signatures (lines 64 and 75), and other values.
VelocidadPorDefecto == Literal(1, 2)
EficienciaPorDefecto == FromInt(10)

VelocidadesEntrada == {VelocidadPorDefecto, Literal(1, 10)}

EficienciasEntrada == {EficienciaPorDefecto, FromInt(3), FromInt(0), FromInt(-1)}

\* ------------------------------------------------------------------- state
VARIABLES
    grafo,                     \* G
    ruta,                      \* ruta_ejemplo
    velocidad,                 \* velocidad_promedio_km_min of the last call
    distancia_km,              \* distancia_km of the last consumption call
    eficiencia,                \* eficiencia_combustible_km_litro of the last call
    nodo_origen,               \* nodo_origen of the last call
    tiempo_ruta_ejemplo,
    distancia_ruta_ejemplo,
    consumo_ruta_ejemplo,
    entregas_ruta_ejemplo,
    salida,                    \* what has been printed, in order
    pc                         \* the statement the script runs next

vars == <<grafo, ruta, velocidad, distancia_km, eficiencia, nodo_origen,
          tiempo_ruta_ejemplo, distancia_ruta_ejemplo, consumo_ruta_ejemplo,
          entregas_ruta_ejemplo, salida, pc>>

Asignado(x) == x.tipo # "sin asignar"

\* Nothing computed yet, nothing printed.
SinResultados ==
    /\ velocidad = SinAsignar
    /\ distancia_km = SinAsignar
    /\ eficiencia = SinAsignar
    /\ nodo_origen = SinAsignar
    /\ tiempo_ruta_ejemplo = SinAsignar
    /\ distancia_ruta_ejemplo = SinAsignar
    /\ consumo_ruta_ejemplo = SinAsignar
    /\ entregas_ruta_ejemplo = SinAsignar
    /\ salida = <<>>

Init ==
    /\ grafo \in GrafosEntrada
    /\ ruta \in RutasEntrada
    /\ SinResultados
    /\ pc = "tiempo"

\* Faulty variant: the call consumes the route it walks.
AsignarTiempoConsume ==
    /\ LET res == calcular_tiempo_total(grafo, ruta)
       IN  /\ tiempo_ruta_ejemplo' = res.valor
           /\ salida' = salida \o res.avisos
    /\ ruta' = <<>>
    /\ UNCHANGED <<grafo, velocidad, distancia_km, eficiencia, nodo_origen,
                   distancia_ruta_ejemplo, consumo_ruta_ejemplo,
                   entregas_ruta_ejemplo>>

\* x = calcular_tiempo_total(G, ruta_ejemplo), as at line 97.
AsignarTiempo ==
    /\ LET res == calcular_tiempo_total(grafo, ruta)
       IN  /\ tiempo_ruta_ejemplo' = res.valor
           /\ salida' = salida \o res.avisos
    /\ UNCHANGED <<grafo, ruta, velocidad, distancia_km, eficiencia, nodo_origen,
                   distancia_ruta_ejemplo, consumo_ruta_ejemplo,
                   entregas_ruta_ejemplo>>

\* x = estimar_distancia_total(G, ruta_ejemplo, v), as at line 98.
AsignarDistancia ==
    /\ \E v \in VelocidadesEntrada :
          LET res == estimar_distancia_total(grafo, ruta, v)
          IN  /\ velocidad' = v
              /\ distancia_ruta_ejemplo' = res.valor
              /\ salida' = salida \o res.avisos
    /\ UNCHANGED <<grafo, ruta, distancia_km, eficiencia, nodo_origen,
                   tiempo_ruta_ejemplo, consumo_ruta_ejemplo,
                   entregas_ruta_ejemplo>>

\* x = estimar_consumo_combustible(distancia_ruta_ejemplo, ef), as at line 99.
AsignarConsumo ==
    /\ \E ef \in EficienciasEntrada :
          /\ eficiencia' = ef
          /\ distancia_km' = distancia_ruta_ejemplo
          /\ consumo_ruta_ejemplo' =
                 estimar_consumo_combustible(distancia_ruta_ejemplo, ef)
    /\ UNCHANGED <<grafo, ruta, velocidad, nodo_origen, tiempo_ruta_ejemplo,
                   distancia_ruta_ejemplo, entregas_ruta_ejemplo, salida>>

\* x = contar_entregas(ruta_ejemplo, o), as at line 100.
AsignarEntregas ==
    /\ \E o \in OrigenesEntrada :
          /\ nodo_origen' = o
          /\ entregas_ruta_ejemplo' = PyInt(contar_entregas(ruta, o))
    /\ UNCHANGED <<grafo, ruta, velocidad, distancia_km, eficiencia,
                   tiempo_ruta_ejemplo, distancia_ruta_ejemplo,
                   consumo_ruta_ejemplo, salida>>

\* Line 97.
CalcularTiempo ==
    /\ pc = "tiempo"
    /\ AsignarTiempo
    /\ pc' = "distancia"

\* Line 98.
EstimarDistancia ==
    /\ pc = "distancia"
    /\ AsignarDistancia
    /\ pc' = "consumo"

\* Line 99.
EstimarConsumo ==
    /\ pc = "consumo"
    /\ AsignarConsumo
    /\ pc' = "entregas"

\* Line 100.
ContarEntregas ==
    /\ pc = "entregas"
    /\ AsignarEntregas
    /\ pc' = "reporte"

\* The table of lines 104-111 (the bar chart of lines 116-126 shows the
\* same three values): minutes, hundredths of km, hundredths of litres,
\* deliveries.
Tabla ==
    [tipo     |-> "tabla",
     tiempo   |-> tiempo_ruta_ejemplo.n,
     km       |-> Format2f(distancia_ruta_ejemplo),
     litros   |-> Format2f(consumo_ruta_ejemplo),
     entregas |-> entregas_ruta_ejemplo.n]

MensajeError == [tipo |-> "error"]

\* The condition of line 103.
MetricasDefinidas ==
    /\ ~IsNone(tiempo_ruta_ejemplo)
    /\ ~IsNone(distancia_ruta_ejemplo)
    /\ ~IsNone(consumo_ruta_ejemplo)

\* Faulty variant: line 103 does not test the consumption.
ReporteSinConsumo ==
    /\ pc = "reporte"
    /\ salida' = IF ~IsNone(tiempo_ruta_ejemplo) /\ ~IsNone(distancia_ruta_ejemplo)
                 THEN Append(salida, [tipo |-> "tabla",
                                      tiempo |-> tiempo_ruta_ejemplo.n,
                                      km |-> Format2f(distancia_ruta_ejemplo),
                                      litros |-> consumo_ruta_ejemplo,
                                      entregas |-> entregas_ruta_ejemplo.n])
                 ELSE Append(salida, MensajeError)
    /\ pc' = "fin"
    /\ UNCHANGED <<grafo, ruta, velocidad, distancia_km, eficiencia, nodo_origen,
                   tiempo_ruta_ejemplo, distancia_ruta_ejemplo,
                   consumo_ruta_ejemplo, entregas_ruta_ejemplo>>

\* Lines 103-129.
Reporte ==
    /\ pc = "reporte"
    /\ salida' = IF MetricasDefinidas THEN Append(salida, Tabla)
                                      ELSE Append(salida, MensajeError)
    /\ pc' = "fin"
    /\ UNCHANGED <<grafo, ruta, velocidad, distancia_km, eficiencia, nodo_origen,
                   tiempo_ruta_ejemplo, distancia_ruta_ejemplo,
                   consumo_ruta_ejemplo, entregas_ruta_ejemplo>>

Next ==
    \/ CalcularTiempo
    \/ EstimarDistancia
    \/ EstimarConsumo
    \/ ContarEntregas
    \/ Reporte

Spec == Init /\ [][Next]_vars

\* ------------------------------------------------- the functions on their own
\* A caller of the four functions that calls them in any order, any number
\* of times, on one graph and one route.  A call that prints is taken only
\* while the output holds fewer than MaxSalida lines.
InitLlamadas ==
    /\ grafo \in GrafosEntrada
    /\ ruta \in {ruta_ejemplo} \cup UNION {[1..n -> ParesEntrada] : n \in 0..MaxLenLlamadas}
    /\ SinResultados
    /\ pc = "libre"

LlamarTiempo ==
    /\ pc = "libre"
    /\ AsignarTiempo
    /\ Len(salida') <= MaxSalida
    /\ pc' = pc

LlamarDistancia ==
    /\ pc = "libre"
    /\ AsignarDistancia
    /\ Len(salida') <= MaxSalida
    /\ pc' = pc

LlamarConsumo ==
    /\ pc = "libre"
    /\ Asignado(distancia_ruta_ejemplo)
    /\ AsignarConsumo
    /\ pc' = pc

LlamarEntregas ==
    /\ pc = "libre"
    /\ AsignarEntregas
    /\ pc' = pc

NextLlamadas ==
    \/ LlamarTiempo
    \/ LlamarDistancia
    \/ LlamarConsumo
    \/ LlamarEntregas

SpecLlamadas == InitLlamadas /\ [][NextLlamadas]_vars

\* ------------------------------------------------------------------ claims
\* Every pair of the route is an edge of the graph.
RutaValida(g, r) == \A i \in 1..Len(r) : has_edge(g, r[i][1], r[i][2])

RECURSIVE SumaSobre(_, _, _)
SumaSobre(S, g, r) ==
    IF S = {} THEN 0
    ELSE LET ar == CHOOSE x \in S : TRUE
         IN  g.peso[ar] * Cardinality({i \in 1..Len(r) : r[i] = ar})
                 + SumaSobre(S \ {ar}, g, r)

\* The sum of the weights of a route, edge by edge of the graph: each edge's
\* weight times the number of its occurrences in the route.
SumaDePesos(g, r) == SumaSobre(DOMAIN g.peso, g, r)

Permutar(r, p) == [i \in 1..Len(r) |-> r[p[i]]]

\* C1: on a route whose pairs are all edges, the total time is the sum of
\* the weights of its pairs, every occurrence counted, and every
\* permutation of the route gives the same total.
C1_TiempoEsSumaDePesos ==
    (pc # "tiempo" /\ RutaValida(grafo, ruta)) =>
        /\ ~IsNone(tiempo_ruta_ejemplo)
        /\ tiempo_ruta_ejemplo.n = SumaDePesos(grafo, ruta)
        /\ \A p \in Permutations(1..Len(ruta)) :
              LET otra == calcular_tiempo_total(grafo, Permutar(ruta, p))
              IN  /\ ~IsNone(otra.valor)
                  /\ otra.valor.n = tiempo_ruta_ejemplo.n
                  /\ otra.avisos = <<>>

\* A valid route of three pairs that repeats an edge around a different one.
C1_Witness ==
    /\ pc = "distancia"
    /\ RutaValida(grafo, ruta)
    /\ Len(ruta) = 3
    /\ ruta[1] = ruta[3]
    /\ ruta[1] # ruta[2]
    /\ weight(grafo, ruta[1][1], ruta[1][2]) # weight(grafo, ruta[2][1], ruta[2][2])

\* The first pair of the route that is not an edge of the graph.
PrimerParAusente(g, r) ==
    r[CHOOSE i \in 1..Len(r) :
          /\ ~has_edge(g, r[i][1], r[i][2])
          /\ \A j \in 1..(i - 1) : has_edge(g, r[j][1], r[j][2])]

\* C2: on a route with a pair that is not an edge, the total time is the
\* failure value, never a number, and the failure names the first such pair
\* of the route.
C2_FallaEnPrimerParAusente ==
    (pc # "tiempo" /\ ~RutaValida(grafo, ruta)) =>
        /\ IsNone(tiempo_ruta_ejemplo)
        /\ Len(salida) >= 1
        /\ salida[1] = Advertencia(PrimerParAusente(grafo, ruta)[1],
                                   PrimerParAusente(grafo, ruta)[2])
        /\ LET res == calcular_tiempo_total(grafo, ruta)
           IN  /\ IsNone(res.valor)
               /\ Len(res.avisos) = 1

\* An edge first, then two different pairs that are not edges.
C2_Witness ==
    /\ pc = "distancia"
    /\ Len(ruta) = 3
    /\ has_edge(grafo, ruta[1][1], ruta[1][2])
    /\ ~has_edge(grafo, ruta[2][1], ruta[2][2])
    /\ ~has_edge(grafo, ruta[3][1], ruta[3][2])
    /\ ruta[2] # ruta[3]

\* No table has been printed.
SinTabla == \A i \in 1..Len(salida) : salida[i].tipo # "tabla"

\* C3: the failure of the total time propagates: the distance of the route
\* fails for every speed, the consumption of that undefined distance fails
\* for every efficiency, and no metric of the route is reported as a number.
C3_FallaSePropaga ==
    (~RutaValida(grafo, ruta)) =>
        /\ \A v \in VelocidadesEntrada :
              IsNone(estimar_distancia_total(grafo, ruta, v).valor)
        /\ pc \notin {"tiempo", "distancia"} => IsNone(distancia_ruta_ejemplo)
        /\ pc \notin {"tiempo", "distancia", "consumo"} =>
              /\ IsNone(consumo_ruta_ejemplo)
              /\ \A ef \in EficienciasEntrada :
                    IsNone(estimar_consumo_combustible(distancia_ruta_ejemplo, ef))
        /\ SinTabla
        /\ pc = "fin" => salida[Len(salida)] = MensajeError

\* The sample graph and a route through Granada -> Ciudad Jardin, run to
\* the end with a positive efficiency.
C3_Witness ==
    /\ pc = "fin"
    /\ grafo = G
    /\ \E i \in 1..Len(ruta) : ruta[i] = <<P2, P4>>
    /\ FPositive(eficiencia)

\* f is the quotient a / b rounded to a float: it lies within half a unit
\* of f's last place of the exact quotient (and is zero exactly when a is).
EsCociente(f, a, b) ==
    LET k  == -(IF f.e + b.e < a.e THEN f.e + b.e ELSE a.e)
        lo == f.m * b.m * Pow2(f.e + b.e + k)
        hi == a.m * Pow2(a.e + k)
    IN  /\ f.tipo = "float"
        /\ (f.m = 0) <=> (a.m = 0)
        /\ 2 * Abs(lo - hi) <= Abs(b.m) * Pow2(f.e + b.e + k)

\* C4: the consumption fails for every efficiency <= 0 whatever the
\* distance, and for a defined distance (zero included) and an efficiency
\* > 0 it is the quotient distance / efficiency.
C4_ConsumoSoloConEficienciaPositiva ==
    (pc \notin {"tiempo", "distancia", "consumo"}) =>
        /\ ~FPositive(eficiencia) => IsNone(consumo_ruta_ejemplo)
        /\ (FPositive(eficiencia) /\ ~IsNone(distancia_ruta_ejemplo)) =>
              /\ ~IsNone(consumo_ruta_ejemplo)
              /\ EsCociente(consumo_ruta_ejemplo, distancia_ruta_ejemplo, eficiencia)
        /\ \A ef \in EficienciasEntrada, d \in {None, distancia_ruta_ejemplo, FromInt(0)} :
              ~FPositive(ef) => IsNone(estimar_consumo_combustible(d, ef))

\* A defined, nonzero distance with a negative efficiency.
C4_Witness ==
    /\ pc = "entregas"
    /\ ~IsNone(distancia_ruta_ejemplo)
    /\ distancia_ruta_ejemplo.m # 0
    /\ eficiencia.m < 0

\* The destinations of a route.
Destinos(r) == {r[i][2] : i \in 1..Len(r)}

\* C5: the delivery count is the number of distinct destinations of the
\* route other than the origin node, whatever the graph holds.
C5_EntregasSonDestinosDistintos ==
    /\ pc \in {"reporte", "fin"} =>
          entregas_ruta_ejemplo.n = Cardinality(Destinos(ruta) \ {nodo_origen})
    /\ \A o \in nodos_simulados_geo :
          contar_entregas(ruta, o) = Cardinality(Destinos(ruta) \ {o})
    /\ contar_entregas(<<>>, CEDI) = 0

\* A destination visited first and last with another one between, the
\* origin node among the destinations, and a pair that is not an edge.
C5_Witness ==
    /\ pc = "reporte"
    /\ Len(ruta) = 3
    /\ ruta[1][2] = ruta[3][2]
    /\ ruta[1][2] # nodo_origen
    /\ ruta[2][2] = nodo_origen
    /\ ~RutaValida(grafo, ruta)

\* The float a holds exactly the integer n.
EsEntero(a, n) == a.m * Pow2(a.e) = n * Pow2(-a.e)

\* C6: the example route on the sample graph with the default speed and
\* efficiency and origin CEDI takes 64 minutes, 32.0 km, 3.2 litres (the
\* float nearest to 16/5) and makes 3 deliveries, and the table shows them.
C6_RutaDeEjemplo ==
    (/\ pc = "fin"
     /\ grafo = G
     /\ ruta = ruta_ejemplo
     /\ velocidad = VelocidadPorDefecto
     /\ eficiencia = EficienciaPorDefecto
     /\ nodo_origen = CEDI) =>
        /\ tiempo_ruta_ejemplo = PyInt(64)
        /\ EsEntero(distancia_ruta_ejemplo, 32)
        /\ consumo_ruta_ejemplo = Literal(32, 10)
        /\ EsCociente(consumo_ruta_ejemplo, FromInt(16), FromInt(5))
        /\ entregas_ruta_ejemplo = PyInt(3)
        /\ salida = << [tipo |-> "tabla", tiempo |-> 64, km |-> 3200,
                        litros |-> 320, entregas |-> 3] >>

C6_Witness ==
    /\ pc = "fin"
    /\ grafo = G
    /\ ruta = ruta_ejemplo
    /\ velocidad = VelocidadPorDefecto
    /\ eficiencia = EficienciaPorDefecto
    /\ nodo_origen = CEDI
    /\ ~SinTabla

FactoresEntrada == {FromInt(2), FromInt(3), FromInt(4), Literal(1, 2)}

\* The float k is a power of two: its mantissa is the leading bit alone.
EsPotenciaDeDos(k) == k.m = Pow2(Precision - 1)

\* Floats a and b differ by at most n units of the last place of the larger.
Cerca(a, b, n) ==
    LET lo == IF a.e < b.e THEN a.e ELSE b.e
        hi == IF a.e < b.e THEN b.e ELSE a.e
    IN  Abs(a.m * Pow2(a.e - lo) - b.m * Pow2(b.e - lo)) <= n * Pow2(hi - lo)

DistanciaCalculadaValida ==
    /\ pc \notin {"tiempo", "distancia"}
    /\ RutaValida(grafo, ruta)

\* C7, as stated: the distance is total_time * s, and scaling the speed by
\* any k > 0 scales the distance by k.
C7_EscalaConCualquierFactor ==
    DistanciaCalculadaValida =>
        /\ distancia_ruta_ejemplo = FMul(FromInt(tiempo_ruta_ejemplo.n), velocidad)
        /\ \A k \in FactoresEntrada :
              estimar_distancia_total(grafo, ruta, FMul(k, velocidad)).valor
                  = FMul(k, distancia_ruta_ejemplo)

\* C7, amended: the distance is the float product total_time * s; scaling
\* the speed by k scales the distance by k exactly whenever k or s is a power
\* of two, and to within four units of the last place for any other k.
C7_EscalaConPotenciasDeDos ==
    DistanciaCalculadaValida =>
        /\ distancia_ruta_ejemplo = FMul(FromInt(tiempo_ruta_ejemplo.n), velocidad)
        /\ \A k \in FactoresEntrada :
              LET escalada == estimar_distancia_total(grafo, ruta, FMul(k, velocidad)).valor
                  producto == FMul(k, distancia_ruta_ejemplo)
              IN  /\ escalada.tipo = "float"
                  /\ (EsPotenciaDeDos(k) \/ EsPotenciaDeDos(velocidad)) =>
                        escalada = producto
                  /\ Cerca(escalada, producto, 4)

\* A route of 7 minutes at 0.1 km/min, where a factor of 3 rounds apart.
C7_Witness ==
    /\ pc = "consumo"
    /\ RutaValida(grafo, ruta)
    /\ tiempo_ruta_ejemplo.n = 7
    /\ velocidad = Literal(1, 10)
    /\ estimar_distancia_total(grafo, ruta, FMul(FromInt(3), velocidad)).valor
           # FMul(FromInt(3), distancia_ruta_ejemplo)

\* C8: the report prints the table exactly when time, distance and
\* consumption are all defined, and the failure message alone otherwise;
\* no metric is printed before it or beside the message, and the script
\* always has a next statement to run until it is done.
C8_ReporteSinResultadosParciales ==
    /\ pc # "fin" =>
          /\ \A i \in 1..Len(salida) : salida[i].tipo = "advertencia"
          /\ ENABLED Next
    /\ pc = "fin" =>
          LET n == Len(salida)
          IN  /\ n >= 1
              /\ \A i \in 1..(n - 1) : salida[i].tipo = "advertencia"
              /\ MetricasDefinidas <=> salida[n].tipo = "tabla"
              /\ ~MetricasDefinidas <=> salida[n].tipo = "error"
              /\ MetricasDefinidas => salida[n] = Tabla

\* Time and distance are defined and the consumption is not.
C8_Witness ==
    /\ pc = "fin"
    /\ ~IsNone(tiempo_ruta_ejemplo)
    /\ ~IsNone(distancia_ruta_ejemplo)
    /\ IsNone(consumo_ruta_ejemplo)
    /\ salida = <<MensajeError>>

\* C9: no call of the four functions, in any order and any number of times,
\* on success or on failure, changes the graph or the route, and a call
\* with the same arguments as the one before returns what that one returned.
C9_GrafoYRutaNoCambian ==
    [][/\ grafo' = grafo
       /\ ruta' = ruta
       /\ Asignado(tiempo_ruta_ejemplo) => tiempo_ruta_ejemplo' = tiempo_ruta_ejemplo
       /\ (Asignado(distancia_ruta_ejemplo) /\ velocidad' = velocidad) =>
             distancia_ruta_ejemplo' = distancia_ruta_ejemplo
       /\ (Asignado(consumo_ruta_ejemplo) /\ eficiencia' = eficiencia
               /\ distancia_km' = distancia_km) =>
             consumo_ruta_ejemplo' = consumo_ruta_ejemplo
       /\ (Asignado(entregas_ruta_ejemplo) /\ nodo_origen' = nodo_origen) =>
             entregas_ruta_ejemplo' = entregas_ruta_ejemplo
       /\ Asignado(distancia_ruta_ejemplo') =>
             (IsNone(distancia_ruta_ejemplo') <=> ~RutaValida(grafo', ruta'))
      ]_vars

\* All four functions have been called on a route that fails, the time at
\* least twice.
C9_Witness ==
    /\ pc = "libre"
    /\ ~RutaValida(grafo, ruta)
    /\ Len(ruta) >= 1
    /\ Asignado(tiempo_ruta_ejemplo)
    /\ Asignado(consumo_ruta_ejemplo)
    /\ Asignado(entregas_ruta_ejemplo)
    /\ Len(salida) = MaxSalida

\* C10: the weight a pair (A, B) adds is that of the edge A -> B, never
\* that of B -> A, and a pair whose only edge is B -> A fails as a missing
\* edge: in the sample graph CEDI -> P1 adds 20, P1 -> CEDI adds 25, and
\* Menga -> Granada fails although Granada -> Menga is an edge.
C10_AristasDirigidas ==
    (pc # "tiempo" /\ Len(ruta) = 1) =>
        LET A == ruta[1][1]
            B == ruta[1][2]
        IN  /\ has_edge(grafo, A, B) =>
                  tiempo_ruta_ejemplo = PyInt(grafo.peso[<<A, B>>])
            /\ ~has_edge(grafo, A, B) => IsNone(tiempo_ruta_ejemplo)
            /\ grafo = G =>
                  /\ ruta = << <<CEDI, P1>> >> => tiempo_ruta_ejemplo = PyInt(20)
                  /\ ruta = << <<P1, CEDI>> >> => tiempo_ruta_ejemplo = PyInt(25)
                  /\ ruta = << <<P5, P2>> >> =>
                        /\ IsNone(tiempo_ruta_ejemplo)
                        /\ has_edge(grafo, P2, P5)

\* Menga -> Granada alone on the sample graph.
C10_Witness ==
    /\ pc = "distancia"
    /\ grafo = G
    /\ ruta = << <<P5, P2>> >>
    /\ IsNone(tiempo_ruta_ejemplo)

=============================================================================
